---------------------------- MODULE Spec2Model ----------------------------
(***************************************************************************)
(* The persisting variant of the dashboard (src/unnamed/part_000): a React *)
(* component holding a list of data points and an expiration timestamp,    *)
(* saved to and restored from the cookie graphData.                        *)
(*                                                                         *)
(* Representation.                                                         *)
(*   - Times are integer milliseconds, as Date.getTime() returns them. The *)
(*     clock starts at ClockStart instead of a real epoch value so that    *)
(*     all numbers stay inside TLC's 32-bit integers.                      *)
(*   - A number entered by the user is a decimal with two digits           *)
(*     (<input type="number" step="0.01">), held as an integer count of    *)
(*     hundredths; floating-point rounding is not modelled.                *)
(*   - A JavaScript value is a record tagged by t: "undefined", "null",    *)
(*     "num", "str", "arr" or "obj". An object keeps its properties in     *)
(*     insertion order, as JSON.stringify writes them.                     *)
(*   - A text (cookie string, JSON text) is a sequence of tokens: the      *)
(*     characters the code splits and parses on are tokens of their own.   *)
(***************************************************************************)
EXTENDS Integers, Sequences, FiniteSets, TLC

(***************************************************************************)
(* Bounds of the model.                                                    *)
(***************************************************************************)
MaxPoints == 2
MaxTicks == 2

\* The first instant of the model (any instant would do).
ClockStart == 1000

(***************************************************************************)
(* JavaScript values.                                                      *)
(***************************************************************************)
Undefined == [t |-> "undefined"]
JNull == [t |-> "null"]
JNum(n) == [t |-> "num", n |-> n]
\* A string value: s names its text; for an ISO-8601 timestamp s = "iso" and
\* n is the instant it denotes (toISOString is one-to-one on instants).
JStr(s, n) == [t |-> "str", s |-> s, n |-> n]
JArr(items) == [t |-> "arr", items |-> items]
JProp(key, val) == [k |-> key, v |-> val]
JObj(props) == [t |-> "obj", props |-> props]

\* v.key : undefined for a missing property and for a property of a number or
\* a string. (On null and undefined the access throws: see AccessThrows.)
GetProp(v, key) ==
    IF v.t = "obj" /\ \E i \in 1..Len(v.props) : v.props[i].k = key
    THEN LET i == CHOOSE j \in 1..Len(v.props) :
                    /\ v.props[j].k = key
                    /\ \A h \in (j+1)..Len(v.props) : v.props[h].k # key
         IN v.props[i].v
    ELSE Undefined

\* A property access on null or undefined raises a TypeError.
AccessThrows(v) == v.t \in {"undefined", "null"}

\* JavaScript truthiness of a value (if (savedData) ...).
Truthy(v) ==
    CASE v.t = "undefined" -> FALSE
      [] v.t = "null" -> FALSE
      [] v.t = "num" -> v.n # 0
      [] v.t = "str" -> v.s # ""
      [] OTHER -> TRUE

(***************************************************************************)
(* Texts.                                                                  *)
(***************************************************************************)
Ch(c) == [k |-> c]
Word(w) == [k |-> "word", s |-> w]
NumTok(n) == [k |-> "num", n |-> n]
StrTok(s, n) == [k |-> "str", s |-> s, n |-> n]
\* A percent-escape %XX standing for the character c.
Pct(c) == [k |-> "pct", c |-> c]

RECURSIVE IndexFrom(_, _, _)
\* The index of the first token of text at or after i equal to tok, 0 when
\* there is none.
IndexFrom(text, tok, i) ==
    IF i > Len(text) THEN 0
    ELSE IF text[i] = tok THEN i
    ELSE IndexFrom(text, tok, i + 1)

\* String.prototype.indexOf, counted from 1.
IndexOf(text, tok) == IndexFrom(text, tok, 1)

RECURSIVE Split(_, _)
\* String.prototype.split(sep) for a one-character separator.
Split(text, sep) ==
    LET i == IndexOf(text, Ch(sep))
    IN IF i = 0 THEN <<text>>
       ELSE <<SubSeq(text, 1, i - 1)>> \o Split(SubSeq(text, i + 1, Len(text)), sep)

RECURSIVE TrimLeft(_)
TrimLeft(text) ==
    IF text # <<>> /\ Head(text) = Ch(" ") THEN TrimLeft(Tail(text)) ELSE text

RECURSIVE TrimRight(_)
TrimRight(text) ==
    IF text # <<>> /\ text[Len(text)] = Ch(" ")
    THEN TrimRight(SubSeq(text, 1, Len(text) - 1))
    ELSE text

\* String.prototype.trim
Trim(text) == TrimRight(TrimLeft(text))

\* String.prototype.startsWith
StartsWith(text, prefix) ==
    /\ Len(text) >= Len(prefix)
    /\ SubSeq(text, 1, Len(prefix)) = prefix

(***************************************************************************)
(* JSON.stringify and JSON.parse.                                          *)
(***************************************************************************)
RECURSIVE Stringify(_)
RECURSIVE StringifyItems(_)
RECURSIVE StringifyProps(_)

\* Array elements: undefined is written as null.
StringifyItems(items) ==
    IF items = <<>> THEN <<>>
    ELSE (IF Head(items).t = "undefined" THEN <<Word("null")>> ELSE Stringify(Head(items)))
         \o (IF Tail(items) = <<>> THEN <<>> ELSE <<Ch(",")>> \o StringifyItems(Tail(items)))

\* Object properties in insertion order; a property whose value is undefined
\* is left out.
StringifyProps(props) ==
    IF props = <<>> THEN <<>>
    ELSE LET rest == StringifyProps(Tail(props))
             p == Head(props)
         IN IF p.v.t = "undefined" THEN rest
            ELSE <<StrTok(p.k, 0), Ch(":")>> \o Stringify(p.v)
                 \o (IF rest = <<>> THEN <<>> ELSE <<Ch(",")>> \o rest)

Stringify(v) ==
    CASE v.t = "num" -> <<NumTok(v.n)>>
      [] v.t = "str" -> <<StrTok(v.s, v.n)>>
      [] v.t = "null" -> <<Word("null")>>
      [] v.t = "arr" -> <<Ch("[")>> \o StringifyItems(v.items) \o <<Ch("]")>>
      [] v.t = "obj" -> <<Ch("{")>> \o StringifyProps(v.props) \o <<Ch("}")>>
      [] OTHER -> <<Word("undefined")>>

\* The result of a parse step: ok, the value read, the index after it.
ParseFail == [ok |-> FALSE, v |-> Undefined, i |-> 0]
ParseOk(v, i) == [ok |-> TRUE, v |-> v, i |-> i]

RECURSIVE ParseValue(_, _)
RECURSIVE ParseItems(_, _, _)
RECURSIVE ParseProps(_, _, _)

\* After an array element r: "," and more elements, or "]".
ItemsAfter(text, r, acc) ==
    IF ~r.ok \/ r.i > Len(text) THEN ParseFail
    ELSE IF text[r.i] = Ch("]") THEN ParseOk(JArr(Append(acc, r.v)), r.i + 1)
    ELSE IF text[r.i] = Ch(",") THEN ParseItems(text, r.i + 1, Append(acc, r.v))
    ELSE ParseFail

\* After "[" or after a ",": a value, then "," or "]".
ParseItems(text, i, acc) == ItemsAfter(text, ParseValue(text, i), acc)

\* After the value r of the property key: "," and more properties, or "}".
PropsAfter(text, key, r, acc) ==
    IF ~r.ok \/ r.i > Len(text) THEN ParseFail
    ELSE IF text[r.i] = Ch("}") THEN ParseOk(JObj(Append(acc, JProp(key, r.v))), r.i + 1)
    ELSE IF text[r.i] = Ch(",") THEN ParseProps(text, r.i + 1, Append(acc, JProp(key, r.v)))
    ELSE ParseFail

\* After "{" or after a ",": a key, ":", a value, then "," or "}".
ParseProps(text, i, acc) ==
    IF i + 1 > Len(text) \/ text[i].k # "str" \/ text[i + 1] # Ch(":") THEN ParseFail
    ELSE PropsAfter(text, text[i].s, ParseValue(text, i + 2), acc)

ParseValue(text, i) ==
    IF i > Len(text) THEN ParseFail
    ELSE CASE text[i].k = "num" -> ParseOk(JNum(text[i].n), i + 1)
           [] text[i].k = "str" -> ParseOk(JStr(text[i].s, text[i].n), i + 1)
           [] text[i] = Word("null") -> ParseOk(JNull, i + 1)
           [] text[i] = Ch("[") ->
                IF i + 1 <= Len(text) /\ text[i + 1] = Ch("]")
                THEN ParseOk(JArr(<<>>), i + 2)
                ELSE ParseItems(text, i + 1, <<>>)
           [] text[i] = Ch("{") ->
                IF i + 1 <= Len(text) /\ text[i + 1] = Ch("}")
                THEN ParseOk(JObj(<<>>), i + 2)
                ELSE ParseProps(text, i + 1, <<>>)
           [] OTHER -> ParseFail

\* JSON.parse: the whole text must be one value, else a SyntaxError is thrown
\* (ok = FALSE).
JSONParse(text) ==
    LET r == ParseValue(text, 1)
    IN IF r.ok /\ r.i = Len(text) + 1 THEN r ELSE ParseFail

\* decodeURIComponent: a percent-escape becomes its character; a "%" that
\* starts no escape raises a URIError (ok = FALSE).
DecodeURIComponent(text) ==
    IF \E i \in 1..Len(text) : text[i] = Ch("%")
    THEN [ok |-> FALSE, text |-> <<>>]
    ELSE [ok |-> TRUE,
          text |-> [i \in 1..Len(text) |->
                      IF text[i].k = "pct" THEN Ch(text[i].c) ELSE text[i]]]

(***************************************************************************)
(* The cookie store of the browser, for the one cookie the program uses.   *)
(* A cookie is [present, value, expires]: expires is the instant after     *)
(* which the browser no longer returns it.                                 *)
(***************************************************************************)
NoCookie == [present |-> FALSE, value |-> <<>>, expires |-> 0]

\* The browser returns the cookie up to and including the instant expires:
\* it measures max-age from the moment of the assignment, which is never
\* before the millisecond the program read from the clock.
CookieVisible(jar, now) == jar.present /\ now <= jar.expires

\* Another cookie of the same site, which the browser lists before graphData.
SiteCookieText == <<Word("theme"), Ch("="), Word("dark")>>

\* Reading document.cookie: the visible cookies as name=value, joined by "; ".
DocumentCookie(jar, now) ==
    IF CookieVisible(jar, now)
    THEN SiteCookieText \o <<Ch(";"), Ch(" "), Word("graphData"), Ch("=")>> \o jar.value
    ELSE SiteCookieText

\* The date of an expires attribute, as an instant.
DateOf(text) ==
    IF text = <<Word("Thu, 01 Jan 1970 00:00:00 GMT")>> THEN 0 ELSE -1

\* The instant a cookie string's attributes make the cookie expire:
\* max-age=N is N seconds from now, expires=DATE is that date.
AttributeExpiry(attrs, now) ==
    LET t == [i \in 1..Len(attrs) |-> Trim(attrs[i])]
        isMaxAge(a) == /\ StartsWith(a, <<Word("max-age"), Ch("=")>>)
                       /\ Len(a) = 3 /\ a[3].k = "num"
        isExpires(a) == StartsWith(a, <<Word("expires"), Ch("=")>>)
    IN IF \E i \in 1..Len(t) : isMaxAge(t[i])
       THEN now + 1000 * (t[CHOOSE i \in 1..Len(t) : isMaxAge(t[i])][3].n)
       ELSE IF \E i \in 1..Len(t) : isExpires(t[i])
       THEN LET a == t[CHOOSE i \in 1..Len(t) : isExpires(t[i])]
            IN DateOf(SubSeq(a, 3, Len(a)))
       ELSE now

\* Assigning document.cookie = text. The pair before the first ";" is
\* name=value, split at its first "="; a cookie whose expiry is already past
\* is removed.
CookieAssign(jar, text, now) ==
    LET pieces == Split(text, ";")
        pair == pieces[1]
        eq == IndexOf(pair, Ch("="))
        name == SubSeq(pair, 1, eq - 1)
        value == SubSeq(pair, eq + 1, Len(pair))
        expiry == AttributeExpiry(Tail(pieces), now)
    IN IF eq = 0 \/ name # <<Word("graphData")>> THEN jar
       ELSE IF expiry < now THEN NoCookie
       ELSE [present |-> TRUE, value |-> value, expires |-> expiry]

(***************************************************************************)
(* The persistence functions of the program.                               *)
(***************************************************************************)
TwelveHoursMs == 12 * 60 * 60 * 1000

\* A variant whose window is 24 hours, longer than the cookie's max-age.
getExpirationTime_24h(now) == now + 24 * 60 * 60 * 1000

\* getExpirationTime, called at instant now.
getExpirationTime(now) == now + TwelveHoursMs

\* A variant with the comparison reversed (now < expirationTime).
hasDataExpired_reversed(expirationTime, now) ==
    expirationTime.t = "num" /\ now < expirationTime.n

\* now > expirationTime, as JavaScript compares: an undefined (or any other
\* non-numeric, non-null) operand makes the comparison false, null counts as 0.
hasDataExpired(expirationTime, now) ==
    CASE expirationTime.t = "num" -> now > expirationTime.n
      [] expirationTime.t = "null" -> now > 0
      [] OTHER -> FALSE

\* The object saveDataToCookies serialises: { data, expirationTime }.
cookieData(data, expirationTime) ==
    JObj(<<JProp("data", data), JProp("expirationTime", expirationTime)>>)

\* The string saveDataToCookies assigns to document.cookie.
SaveText(data, expirationTime) ==
    <<Word("graphData"), Ch("=")>>
    \o Stringify(cookieData(data, expirationTime))
    \o <<Ch(";"), Ch(" "), Word("path"), Ch("="), Word("/"),
         Ch(";"), Ch(" "), Word("max-age"), Ch("="), NumTok(60 * 60 * 12)>>

saveDataToCookies(jar, data, expirationTime, now) ==
    CookieAssign(jar, SaveText(data, expirationTime), now)

\* The string that clears the cookie.
ClearText ==
    <<Word("graphData"), Ch("="),
      Ch(";"), Ch(" "), Word("path"), Ch("="), Word("/"),
      Ch(";"), Ch(" "), Word("expires"), Ch("="), Word("Thu, 01 Jan 1970 00:00:00 GMT")>>

\* A variant that takes the first cookie of the list (cookies[0]) instead of
\* searching for graphData.
FindGraphCookie_first(cookies) == IF cookies = <<>> THEN 0 ELSE 1

\* cookies.find(cookie => cookie.trim().startsWith('graphData=')): its index,
\* 0 when there is none.
FindGraphCookie(cookies) ==
    LET hit(i) == StartsWith(Trim(cookies[i]), <<Word("graphData"), Ch("=")>>)
    IN IF \E i \in 1..Len(cookies) : hit(i)
       THEN CHOOSE i \in 1..Len(cookies) : hit(i) /\ \A h \in 1..(i-1) : ~hit(h)
       ELSE 0

LoadResult(result, jar, outcome) == [result |-> result, jar |-> jar, outcome |-> outcome]

\* loadDataFromCookies at instant now: the value returned (JNull for null),
\* the cookie store afterwards, and the branch taken.
loadDataFromCookies(jar, now) ==
    LET cookies == Split(DocumentCookie(jar, now), ";")
        g == FindGraphCookie(cookies)
    IN IF g = 0 THEN LoadResult(JNull, jar, "absent")
       ELSE LET parts == Split(cookies[g], "=")
                cookieValue == parts[2]
                decoded == DecodeURIComponent(cookieValue)
                parsed == JSONParse(decoded.text)
                parsedData == parsed.v
            IN IF ~decoded.ok \/ ~parsed.ok \/ AccessThrows(parsedData)
               THEN LoadResult(JNull, jar, "error")
               ELSE IF hasDataExpired(GetProp(parsedData, "expirationTime"), now)
               THEN LoadResult(JNull, CookieAssign(jar, ClearText, now), "expired")
               ELSE LoadResult(parsedData, jar, "restored")

(***************************************************************************)
(* Rendering: the values App derives from its state on every render.       *)
(***************************************************************************)
JNaN == [t |-> "nan"]

\* A variant that forgets the accumulator (returns point.value).
PlusValue_overwrite(sum, value) ==
    IF value.t = "num" THEN value ELSE JNaN

\* sum + point.value for a numeric sum: null counts as 0, undefined gives NaN.
PlusValue(sum, value) ==
    CASE sum.t = "num" /\ value.t = "num" -> JNum(sum.n + value.n)
      [] sum.t = "num" /\ value.t = "null" -> sum
      [] OTHER -> JNaN

RECURSIVE Reduce(_, _)
\* items.reduce((sum, point) => sum + point.value, sum), left to right.
Reduce(items, sum) ==
    IF items = <<>> THEN sum
    ELSE Reduce(Tail(items), PlusValue(sum, GetProp(Head(items), "value")))

\* totalSum, in hundredths.
totalSum(dataPoints) == Reduce(dataPoints.items, JNum(0))

\* realProfit = totalSum * 0.9, in thousandths (0.9 is 9 tenths).
realProfit(dataPoints) ==
    LET sum == totalSum(dataPoints)
    IN IF sum.t = "num" THEN JNum(sum.n * 9) ELSE JNaN

\* The number of records shown: dataPoints.length.
count(dataPoints) == Len(dataPoints.items)

\* a % b as JavaScript computes it: the sign of the dividend.
JsRem(a, b) == IF a >= 0 THEN a % b ELSE -((-a) % b)

\* A variant without the clamp (expirationTime - now).
timeUntilExpiration_unclamped(expirationTime, now) ==
    IF expirationTime.t # "num" THEN JNaN ELSE JNum(expirationTime.n - now)

\* Math.max(0, expirationTime - now)
timeUntilExpiration(expirationTime, now) ==
    IF expirationTime.t # "num" THEN JNaN
    ELSE IF expirationTime.n - now > 0 THEN JNum(expirationTime.n - now)
    ELSE JNum(0)

\* Math.floor(timeUntilExpiration / (1000 * 60 * 60))
hoursRemaining(expirationTime, now) ==
    LET t == timeUntilExpiration(expirationTime, now)
    IN IF t.t # "num" THEN JNaN ELSE JNum(t.n \div (1000 * 60 * 60))

\* Math.floor((timeUntilExpiration % (1000 * 60 * 60)) / (1000 * 60))
minutesRemaining(expirationTime, now) ==
    LET t == timeUntilExpiration(expirationTime, now)
    IN IF t.t # "num" THEN JNaN
       ELSE JNum(JsRem(t.n, 1000 * 60 * 60) \div (1000 * 60))

\* new Date(v) is a valid date: format() raises a RangeError otherwise.
ValidDate(v) == v.t \in {"num", "null"} \/ (v.t = "str" /\ v.s = "iso")

\* The render raises: dataPoints has no reduce/map (it is no array), a point
\* is null or undefined, a point's value makes totalSum a string (toFixed is
\* then no function), or a point's timestamp is no date.
RenderThrows(dataPoints) ==
    \/ dataPoints.t # "arr"
    \/ \E i \in 1..Len(dataPoints.items) :
          LET point == dataPoints.items[i]
          IN \/ AccessThrows(point)
             \/ GetProp(point, "value").t \notin {"num", "null", "undefined"}
             \/ ~ValidDate(GetProp(point, "timestamp"))

(***************************************************************************)
(* The user's input.                                                       *)
(***************************************************************************)
\* What the number field can hold: "" or a decimal numeral.
InputTexts == {"1.8", "-0.5"}

\* Number(newValue), in hundredths.
NumberOf(text) ==
    CASE text = "1.8" -> 180
      [] text = "-0.5" -> -50
      [] OTHER -> 0

(***************************************************************************)
(* The state.                                                              *)
(***************************************************************************)
VARIABLES
    clock,            \* the current instant, new Date().getTime()
    ticks,            \* how many times the clock has advanced
    jar,              \* the browser's graphData cookie
    dataPoints,       \* App state: the series
    expirationTime,   \* App state: the expiration timestamp
    crashed,          \* a render raised: React has unmounted the App
    savedData,        \* what the last loadDataFromCookies returned
    loadOutcome,      \* the branch the last loadDataFromCookies took
    entered,          \* the values passed to addDataPoint since the page loaded
    lastOp            \* the operation that produced this state

vars == <<clock, ticks, jar, dataPoints, expirationTime, crashed,
          savedData, loadOutcome, entered, lastOp>>

\* How far one step of the clock can take it: a millisecond, an hour, the
\* twelve hours of the expiration window.
TickDeltas == {1, 60 * 60 * 1000, TwelveHoursMs}

\* A variant without the else branch of the load effect: the expiration stays
\* the one the first render computed.
FreshExpiration_fromRender(renderedAt, now) == JNum(renderedAt + 12 * 60 * 60 * 1000)

\* The expiration set by the mount effect when nothing was restored
\* (setExpirationTime(getExpirationTime())); the render before it, at
\* renderedAt, had initialised the state with getExpirationTime() too.
FreshExpiration(renderedAt, now) == JNum(getExpirationTime(now))

\* The series the load effect leaves: savedData.data when something was
\* loaded, else the empty list of the first render.
MountPoints(loadedData) ==
    IF Truthy(loadedData) THEN GetProp(loadedData, "data") ELSE JArr(<<>>)

\* A variant that never restores the saved expiration.
MountExpiration_alwaysFresh(loadedData, renderedAt, now) ==
    FreshExpiration(renderedAt, now)

\* The expiration the load effect leaves: savedData.expirationTime when
\* something was loaded, else a fresh one.
MountExpiration(loadedData, renderedAt, now) ==
    IF Truthy(loadedData) THEN GetProp(loadedData, "expirationTime")
    ELSE FreshExpiration(renderedAt, now)

\* A variant whose guard is off by one (length > 1).
SaveEffect_skipFirst(j, points, expiration, now) ==
    IF Len(points.items) > 1
    THEN saveDataToCookies(j, points, expiration, now)
    ELSE j

\* A variant without the guard: it saves an empty series too.
SaveEffect_always(j, points, expiration, now) ==
    saveDataToCookies(j, points, expiration, now)

\* The save effect: runs after a render whose dataPoints or expirationTime
\* changed, and saves when the series is not empty.
SaveEffect(j, points, expiration, now) ==
    IF Len(points.items) > 0
    THEN saveDataToCookies(j, points, expiration, now)
    ELSE j

\* A page load: the first render at renderedAt (dataPoints = [], expirationTime
\* = getExpirationTime()), the two mount effects at now (the save effect sees
\* the empty series of the first render and does nothing), and the render and
\* save effect that follow the state the load effect set.
Mount(j, renderedAt, now) ==
    LET loaded == loadDataFromCookies(j, now)
        points == MountPoints(loaded.result)
        expiration == MountExpiration(loaded.result, renderedAt, now)
        throws == RenderThrows(points)
    IN [dataPoints |-> points,
        expirationTime |-> expiration,
        crashed |-> throws,
        savedData |-> loaded.result,
        loadOutcome |-> loaded.outcome,
        jar |-> IF throws THEN loaded.jar
                ELSE SaveEffect(loaded.jar, points, expiration, now)]

\* A variant that puts the new point first ([newDataPoint, ...prev]).
AppendPoint_prepend(points, value, now) ==
    JArr(<<JObj(<<JProp("value", JNum(value)), JProp("timestamp", JStr("iso", now))>>)>>
         \o points.items)

\* The series after addDataPoint(value) at instant now.
AppendPoint(points, value, now) ==
    JArr(points.items \o
         <<JObj(<<JProp("value", JNum(value)), JProp("timestamp", JStr("iso", now))>>)>>)

Init ==
    /\ clock = ClockStart
    /\ ticks = 0
    /\ \E m \in {Mount(NoCookie, ClockStart, ClockStart)} :
          /\ dataPoints = m.dataPoints
          /\ expirationTime = m.expirationTime
          /\ crashed = m.crashed
          /\ savedData = m.savedData
          /\ loadOutcome = m.loadOutcome
          /\ jar = m.jar
    /\ entered = <<>>
    /\ lastOp = "initialize"

\* Time passes: the clock only moves forward.
Tick ==
    /\ ticks < MaxTicks
    /\ \E d \in TickDeltas : clock' = clock + d
    /\ ticks' = ticks + 1
    /\ lastOp' = "tick"
    /\ UNCHANGED <<jar, dataPoints, expirationTime, crashed,
                   savedData, loadOutcome, entered>>

\* The user types a numeral into the number field (newValue) and clicks
\* Adicionar: addDataPoint(Number(newValue)), the render that follows and its
\* save effect. The button is disabled while the field is empty, and
\* addDataPoint empties the field again.
AddDataPoint ==
    /\ ~crashed
    /\ Len(dataPoints.items) < MaxPoints
    /\ \E newValue \in InputTexts :
          \E points \in {AppendPoint(dataPoints, NumberOf(newValue), clock)} :
             /\ dataPoints' = points
             /\ crashed' = RenderThrows(points)
             /\ jar' = IF RenderThrows(points) THEN jar
                       ELSE SaveEffect(jar, points, expirationTime, clock)
             /\ entered' = Append(entered, NumberOf(newValue))
    /\ lastOp' = "append"
    /\ UNCHANGED <<clock, ticks, expirationTime, savedData, loadOutcome>>

\* The page is loaded again; up to a millisecond passes between the first
\* render and the mount effects.
Initialize ==
    \E d \in {0, 1} :
        /\ ticks + d <= MaxTicks
        /\ clock' = clock + d
        /\ ticks' = ticks + d
        /\ \E m \in {Mount(jar, clock, clock + d)} :
              /\ dataPoints' = m.dataPoints
              /\ expirationTime' = m.expirationTime
              /\ crashed' = m.crashed
              /\ savedData' = m.savedData
              /\ loadOutcome' = m.loadOutcome
              /\ jar' = m.jar
        /\ entered' = <<>>
        /\ lastOp' = "initialize"

Next == Tick \/ AddDataPoint \/ Initialize

Spec == Init /\ [][Next]_vars

(***************************************************************************)
(* The same program in a browser where something else than this program    *)
(* writes the graphData cookie as well: the user editing the cookie, an    *)
(* extension, another script or an older version of the page.              *)
(***************************************************************************)
\* Cookie values this program never writes: unparsable text ("{" and a lone
\* "%"), the JSON texts null and {}, and {"data":[]} with its braces
\* percent-escaped.
ForeignValues ==
    { <<Ch("{")>>,
      <<Ch("%")>>,
      <<Word("null")>>,
      <<Ch("{"), Ch("}")>>,
      <<Pct("{"), StrTok("data", 0), Ch(":"), Ch("["), Ch("]"), Pct("}")>> }

\* The graphData cookie is overwritten from outside, with 12 hours to live.
Tamper ==
    /\ \E value \in ForeignValues :
          jar' = [present |-> TRUE, value |-> value, expires |-> clock + TwelveHoursMs]
    /\ lastOp' = "tamper"
    /\ UNCHANGED <<clock, ticks, dataPoints, expirationTime, crashed,
                   savedData, loadOutcome, entered>>

NextTamper == Next \/ Tamper

SpecTamper == Init /\ [][NextTamper]_vars

(***************************************************************************)
(* The countdown as a function of expirationTime and the current time:     *)
(* both are drawn from sample sets, and time passes.                       *)
(***************************************************************************)
CountdownExpirations ==
    {0, 59999, 60000, 60 * 60 * 1000 - 1, 60 * 60 * 1000,
     TwelveHoursMs - 1, TwelveHoursMs, 2 * TwelveHoursMs + 60001}

CountdownClocks == {0, 1, 60000, 60 * 60 * 1000 + 1, TwelveHoursMs}

InitCountdown ==
    /\ clock \in CountdownClocks
    /\ expirationTime \in {JNum(e) : e \in CountdownExpirations}
    /\ ticks = 0
    /\ jar = NoCookie
    /\ dataPoints = JArr(<<>>)
    /\ crashed = FALSE
    /\ savedData = JNull
    /\ loadOutcome = "absent"
    /\ entered = <<>>
    /\ lastOp = "initialize"

NextCountdown == Tick

SpecCountdown == InitCountdown /\ [][NextCountdown]_vars

(***************************************************************************)
(* Properties.                                                             *)
(***************************************************************************)
\* The expirationTime recorded in the cookie j.
SnapshotExpiration(j) == GetProp(JSONParse(j.value).v, "expirationTime")

\* The data recorded in the cookie j.
SnapshotData(j) == GetProp(JSONParse(j.value).v, "data")

\* This state is the one a save has just produced: an append, or a page load
\* that restored a series (and saved it again).
JustSaved ==
    \/ lastOp = "append"
    \/ lastOp = "initialize" /\ loadOutcome = "restored"

C2_ExpirationFixed ==
    [][ /\ (expirationTime' # expirationTime) =>
              /\ lastOp' = "initialize"
              /\ loadOutcome' \in {"absent", "expired"}
              /\ expirationTime' = JNum(clock' + TwelveHoursMs)
        /\ (jar' # jar /\ jar'.present) =>
              /\ SnapshotExpiration(jar') = expirationTime'
              /\ expirationTime' = expirationTime
      ]_vars

\* A page load, later than the start of the series, restored the series and
\* its expiration, and a point was appended after it.
C2_Witness ==
    /\ lastOp = "append"
    /\ loadOutcome = "restored"
    /\ Len(dataPoints.items) = 2
    /\ expirationTime.n < clock + TwelveHoursMs
    /\ SnapshotExpiration(jar) = expirationTime

\* C3: an expired snapshot is dropped for good. A page load that finds a
\* snapshot whose expirationTime E has now > E gets null from
\* loadDataFromCookies and leaves the cookie cleared; while the cookie is
\* cleared every load (now, a millisecond or 12 hours later) returns null; and
\* only a save (an append) makes the cookie present again.
C3_ExpiredStaysNull ==
    [][ /\ ( /\ lastOp' = "initialize"
             /\ CookieVisible(jar, clock')
             /\ clock' > SnapshotExpiration(jar).n )
           => (savedData' = JNull /\ ~jar'.present)
        /\ ~jar'.present =>
              \A later \in {clock', clock' + 1, clock' + TwelveHoursMs} :
                  /\ loadDataFromCookies(jar', later).result = JNull
                  /\ loadDataFromCookies(jar', later).jar = jar'
        /\ (~jar.present /\ jar'.present) => lastOp' = "append"
      ]_vars

\* A page load found the snapshot expired: null was returned, the cookie is
\* gone and the series is empty.
C3_Witness ==
    /\ lastOp = "initialize"
    /\ loadOutcome = "expired"
    /\ savedData = JNull
    /\ ~jar.present
    /\ dataPoints = JArr(<<>>)

\* C4: when a page load has completed, either loadDataFromCookies returned a
\* snapshot and the series is snapshot.data and expirationTime is
\* snapshot.expirationTime, or it returned null and the series is empty and
\* expirationTime is the current time plus 12 hours.
C4_AfterInitialize ==
    lastOp = "initialize" =>
        IF savedData # JNull
        THEN /\ dataPoints = GetProp(savedData, "data")
             /\ expirationTime = GetProp(savedData, "expirationTime")
        ELSE /\ dataPoints = JArr(<<>>)
             /\ expirationTime = JNum(clock + TwelveHoursMs)

\* A page load restored a series of two points.
C4_Witness ==
    /\ lastOp = "initialize"
    /\ savedData # JNull
    /\ Len(dataPoints.items) = 2
    /\ dataPoints = GetProp(savedData, "data")

WellFormedSnapshot(v) ==
    /\ v.t = "obj"
    /\ GetProp(v, "expirationTime").t = "num"
    /\ GetProp(v, "data").t = "arr"
    /\ \A i \in 1..Len(GetProp(v, "data").items) :
          LET point == GetProp(v, "data").items[i]
          IN /\ point.t = "obj"
             /\ GetProp(point, "value").t = "num"
             /\ GetProp(point, "timestamp").t = "str"

\* The cookie j, read at instant now, holds a value that is no snapshot:
\* it does not decode, does not parse, or parses to another shape.
Malformed(j, now) ==
    /\ CookieVisible(j, now)
    /\ \/ ~DecodeURIComponent(j.value).ok
       \/ ~JSONParse(DecodeURIComponent(j.value).text).ok
       \/ ~WellFormedSnapshot(JSONParse(DecodeURIComponent(j.value).text).v)

\* C6: a malformed graphData value of any kind is treated as absent. When a
\* page load has read a malformed cookie, loadDataFromCookies has returned
\* null, nothing was raised (the App is not crashed), the series is empty and
\* expirationTime is a fresh current time plus 12 hours.
C6_MalformedIsAbsent ==
    (lastOp = "initialize" /\ Malformed(jar, clock)) =>
        /\ savedData = JNull
        /\ ~crashed
        /\ dataPoints = JArr(<<>>)
        /\ expirationTime = JNum(clock + TwelveHoursMs)

\* C7: a save is issued exactly when the series is non-empty after a state
\* change. No snapshot with an empty data list is ever in the cookie; while
\* the series is empty (a fresh start, no append yet) the cookie is absent;
\* and when an append or a page load leaves a non-empty series, the cookie has
\* been written at that instant.
C7_SaveIffNonEmpty ==
    /\ jar.present => Len(SnapshotData(jar).items) > 0
    /\ Len(dataPoints.items) = 0 => ~CookieVisible(jar, clock)
    /\ (lastOp \in {"append", "initialize"} /\ Len(dataPoints.items) > 0) =>
          /\ jar.present
          /\ jar.expires = clock + 1000 * (60 * 60 * 12)
          /\ SnapshotData(jar) = dataPoints

\* After an expired snapshot made the page start afresh, and time passed with
\* the series empty and the cookie absent, the first append wrote the cookie.
C7_Witness ==
    /\ loadOutcome = "expired"
    /\ lastOp = "append"
    /\ Len(dataPoints.items) = 1
    /\ jar.present
    /\ Len(SnapshotData(jar).items) = 1

\* C8: between page loads the series changes only by append. A step that is
\* an append adds exactly one point at the end, carrying the value given, and
\* leaves the earlier points and their order as they were; the passing of
\* time, also past expirationTime, leaves the series as it is; nothing else
\* than an append or a page load changes it.
C8_AppendOnly ==
    [][ /\ lastOp' = "append" =>
              /\ Len(dataPoints'.items) = Len(dataPoints.items) + 1
              /\ SubSeq(dataPoints'.items, 1, Len(dataPoints.items)) = dataPoints.items
              /\ GetProp(dataPoints'.items[Len(dataPoints'.items)], "value")
                    = JNum(entered'[Len(entered')])
        /\ lastOp' = "tick" => dataPoints' = dataPoints
        /\ dataPoints' # dataPoints => lastOp' \in {"append", "initialize"}
      ]_vars

\* A second point was appended after the current time had passed
\* expirationTime: the first point is still there, before it.
C8_Witness ==
    /\ lastOp = "append"
    /\ clock > expirationTime.n
    /\ Len(dataPoints.items) = 2
    /\ GetProp(dataPoints.items[1], "timestamp").n < GetProp(dataPoints.items[2], "timestamp").n

RECURSIVE SumOf(_)
\* v1 + v2 + ... + vn, from the left.
SumOf(values) ==
    IF values = <<>> THEN 0
    ELSE SumOf(SubSeq(values, 1, Len(values) - 1)) + values[Len(values)]

\* C9: after append(v1), ..., append(vn) on a series that started empty, the
\* count shown is n, totalSum is v1 + ... + vn, and realProfit is 0.9 times
\* totalSum (realProfit is held in thousandths and the sum in hundredths, so
\* ten times realProfit is nine times the sum in thousandths).
C9_Summary ==
    (savedData = JNull /\ ~crashed) =>
        /\ count(dataPoints) = Len(entered)
        /\ totalSum(dataPoints) = JNum(SumOf(entered))
        /\ realProfit(dataPoints).t = "num"
        /\ 10 * realProfit(dataPoints).n = 9 * (10 * SumOf(entered))

\* Two values, 1.8 and -0.5, were appended to an empty series: the sum is 1.3.
C9_Witness ==
    /\ savedData = JNull
    /\ entered = <<180, -50>>
    /\ totalSum(dataPoints) = JNum(130)
    /\ realProfit(dataPoints) = JNum(1170)

\* C10: the countdown never goes negative. For every expirationTime and
\* current time, hoursRemaining >= 0 and 0 <= minutesRemaining <= 59, and when
\* now > expirationTime both are 0.
C10_CountdownClamped ==
    /\ hoursRemaining(expirationTime, clock).t = "num"
    /\ minutesRemaining(expirationTime, clock).t = "num"
    /\ hoursRemaining(expirationTime, clock).n >= 0
    /\ minutesRemaining(expirationTime, clock).n >= 0
    /\ minutesRemaining(expirationTime, clock).n <= 59
    /\ clock > expirationTime.n =>
          /\ hoursRemaining(expirationTime, clock).n = 0
          /\ minutesRemaining(expirationTime, clock).n = 0

\* Time has passed more than a minute beyond expirationTime, and the countdown
\* shows 0h 0m.
C10_Witness ==
    /\ lastOp = "tick"
    /\ clock > expirationTime.n + 60000
    /\ hoursRemaining(expirationTime, clock) = JNum(0)
    /\ minutesRemaining(expirationTime, clock) = JNum(0)

\* The instants at which a later load of the cookie j is tried: now, the
\* embedded expirationTime and the millisecond after it, the cookie's own
\* expiry and the millisecond after it.
LaterLoads(j) ==
    {now \in {clock, SnapshotExpiration(j).n, SnapshotExpiration(j).n + 1,
              j.expires, j.expires + 1} : now >= clock}

\* C11: with a clock that never goes back, every snapshot the program has
\* written has its cookie's own expiry (the instant of the write plus the 12
\* hours of max-age) at or after the expirationTime embedded in it. The
\* browser therefore never drops it before its embedded expiration, and a
\* later load restores it exactly when the load's instant is not after the
\* embedded expirationTime.
C11_NativeExpiryCoversEmbedded ==
    jar.present =>
        /\ jar.expires >= SnapshotExpiration(jar).n
        /\ \A now \in LaterLoads(jar) :
              /\ now <= SnapshotExpiration(jar).n => CookieVisible(jar, now)
              /\ (loadDataFromCookies(jar, now).outcome = "restored")
                    <=> (now <= SnapshotExpiration(jar).n)

\* A snapshot was saved by an append later than the page load that chose its
\* expirationTime: the cookie outlives the embedded expiration, a load at the
\* embedded expiration restores it and a load one millisecond later finds it
\* expired although the browser still returns it.
C11_Witness ==
    /\ lastOp = "append"
    /\ jar.present
    /\ jar.expires > SnapshotExpiration(jar).n + 1
    /\ loadDataFromCookies(jar, SnapshotExpiration(jar).n).outcome = "restored"
    /\ CookieVisible(jar, SnapshotExpiration(jar).n + 1)
    /\ loadDataFromCookies(jar, SnapshotExpiration(jar).n + 1).outcome = "expired"

=============================================================================
